---------------------------- MODULE Spec2Model ----------------------------
(***************************************************************************)
(* Model of the Sentry MCP server (src/src/index.ts, lines 1-449): the     *)
(* startup configuration check, the CallToolRequestSchema handler with its *)
(* four tools, parseSentryIssueInput and parseLinkHeader.                  *)
(*                                                                         *)
(* A JavaScript string is a sequence of one-character strings.  A          *)
(* JavaScript value is a record [t, v]: t is the result of typeof (or      *)
(* "undefined" for a missing argument) and v the characters of a string.   *)
(***************************************************************************)
EXTENDS Integers, Sequences, FiniteSets, TLC

VARIABLES
    env,      \* process.env as read at startup
    proc,     \* "starting", "running" or "exited"
    exitCode, \* status passed to process.exit, -1 while the process lives
    config,   \* the values captured at module load and in the constructor
    calls,    \* one record per handler invocation slot
    sample,   \* input and output of a pure function applied on its own
    startupError \* what the startup checks wrote with console.error, "" if nothing

vars == <<env, proc, exitCode, config, calls, sample, startupError>>

----------------------------------------------------------------------------
(* Strings *)

Digit == {"0", "1", "2", "3", "4", "5", "6", "7", "8", "9"}

HexLower == {"a", "b", "c", "d", "e", "f"}

HexUpper == {"A", "B", "C", "D", "E", "F"}

RECURSIVE Cat(_)
\* Concatenation of a sequence of strings.
Cat(ss) == IF ss = <<>> THEN <<>> ELSE Head(ss) \o Cat(Tail(ss))

\* String.prototype.startsWith
StartsWith(s, p) == Len(s) >= Len(p) /\ SubSeq(s, 1, Len(p)) = p

\* Position of the first element of s that is in seps, 0 when there is none.
FirstOf(s, seps) ==
    IF \E i \in 1..Len(s) : s[i] \in seps
    THEN CHOOSE i \in 1..Len(s) : s[i] \in seps /\ \A j \in 1..(i - 1) : s[j] \notin seps
    ELSE 0

RECURSIVE SplitOn(_, _)
\* String.prototype.split on one-character separators: always at least one part.
SplitOn(s, seps) ==
    LET i == FirstOf(s, seps)
    IN  IF i = 0 THEN <<s>>
        ELSE <<SubSeq(s, 1, i - 1)>> \o SplitOn(SubSeq(s, i + 1, Len(s)), seps)

RECURSIVE JoinWith(_, _)
\* Array.prototype.join
JoinWith(parts, sep) ==
    IF parts = <<>> THEN <<>>
    ELSE IF Len(parts) = 1 THEN parts[1]
    ELSE parts[1] \o sep \o JoinWith(Tail(parts), sep)

\* Array.prototype.indexOf, zero-based, -1 when absent.
IndexOf(arr, x) ==
    IF \E i \in 1..Len(arr) : arr[i] = x
    THEN (CHOOSE i \in 1..Len(arr) : arr[i] = x /\ \A j \in 1..(i - 1) : arr[j] # x) - 1
    ELSE -1

\* (mutant) /^\d*$/: the empty string passes
DigitsOnlyLoose(s) == \A i \in 1..Len(s) : s[i] \in Digit

\* (mutant) /^[1-9]\d*$/: a leading zero is refused
DigitsOnlyNoLeadingZero(s) ==
    Len(s) >= 1 /\ s[1] \in Digit \ {"0"} /\ \A i \in 1..Len(s) : s[i] \in Digit

\* /^\d+$/.test(s)
DigitsOnly(s) == Len(s) >= 1 /\ \A i \in 1..Len(s) : s[i] \in Digit

W_http == <<"h", "t", "t", "p", ":", "/", "/">>

W_https == <<"h", "t", "t", "p", "s", ":", "/", "/">>

W_issues == <<"i", "s", "s", "u", "e", "s">>

----------------------------------------------------------------------------
(* new URL(input), for the inputs that reach it: they start with http://   *)
(* or https://, and are made of letters, digits, "/", "\", "?", "#", "."   *)
(* and the space.  The result is [ok, pathname].                           *)

Slashes == {"/", "\\"}

RECURSIVE StripTrailingSpace(_)
StripTrailingSpace(s) ==
    IF s # <<>> /\ s[Len(s)] = " " THEN StripTrailingSpace(SubSeq(s, 1, Len(s) - 1)) ELSE s

RECURSIVE SkipSlashes(_)
\* "special authority ignore slashes" state of the URL parser.
SkipSlashes(s) == IF s # <<>> /\ Head(s) \in Slashes THEN SkipSlashes(Tail(s)) ELSE s

RECURSIVE PercentEncode(_)
\* The path percent-encode set, on the characters of the model: the space.
PercentEncode(s) ==
    IF s = <<>> THEN <<>>
    ELSE (IF Head(s) = " " THEN <<"%", "2", "0">> ELSE <<Head(s)>>) \o PercentEncode(Tail(s))

RECURSIVE NormalizeSegments(_, _)
\* The path state of the URL parser: dot segments are resolved, a trailing
\* dot segment leaves an empty last segment.
NormalizeSegments(raw, acc) ==
    IF raw = <<>> THEN acc
    ELSE LET seg == Head(raw)
             last == Len(raw) = 1
             next == IF seg = <<".", ".">>
                     THEN (IF acc = <<>> THEN acc ELSE SubSeq(acc, 1, Len(acc) - 1))
                          \o (IF last THEN << <<>> >> ELSE <<>>)
                     ELSE IF seg = <<".">>
                     THEN acc \o (IF last THEN << <<>> >> ELSE <<>>)
                     ELSE Append(acc, PercentEncode(seg))
         IN  NormalizeSegments(Tail(raw), next)

ParseURL(input) ==
    LET trimmed == StripTrailingSpace(input)
        afterScheme == IF StartsWith(trimmed, W_https)
                       THEN SubSeq(trimmed, 7, Len(trimmed))
                       ELSE SubSeq(trimmed, 6, Len(trimmed))
        rest == SkipSlashes(afterScheme)
        hostEnd == FirstOf(rest, Slashes \cup {"?", "#"})
        host == IF hostEnd = 0 THEN rest ELSE SubSeq(rest, 1, hostEnd - 1)
        afterHost == IF hostEnd = 0 THEN <<>> ELSE SubSeq(rest, hostEnd, Len(rest))
        pathEnd == FirstOf(afterHost, {"?", "#"})
        path == IF pathEnd = 0 THEN afterHost ELSE SubSeq(afterHost, 1, pathEnd - 1)
        rawSegs == IF path = <<>> THEN << <<>> >> ELSE SplitOn(Tail(path), Slashes)
        segs == NormalizeSegments(rawSegs, <<>>)
        hostOk == host # <<>> /\ \A i \in 1..Len(host) : host[i] # " "
    IN  [ok |-> hostOk,
         pathname |-> IF hostOk THEN <<"/">> \o JoinWith(segs, <<"/">>) ELSE <<>>]

----------------------------------------------------------------------------
(* parseSentryIssueInput: [found, issueId] *)

NoMatch == [found |-> FALSE, issueId |-> <<>>]

Match(id) == [found |-> TRUE, issueId |-> id]

parseSentryIssueInput(input) ==
    IF StartsWith(input, W_http) \/ StartsWith(input, W_https)
    THEN LET url == ParseURL(input)
         IN  IF ~url.ok
             THEN NoMatch   \* new URL threw; the catch logs and falls to return null
             ELSE LET pathParts == SplitOn(url.pathname, {"/"})
                      issuesIndex == IndexOf(pathParts, W_issues)
                  IN  IF issuesIndex # -1 /\ Len(pathParts) > issuesIndex + 1
                      THEN LET issueId == pathParts[issuesIndex + 2]
                           IN  IF DigitsOnly(issueId) THEN Match(issueId) ELSE NoMatch
                      ELSE NoMatch
    ELSE IF DigitsOnly(input) THEN Match(input)
    ELSE NoMatch

----------------------------------------------------------------------------
(* JavaScript values and texts *)

Undefined == [t |-> "undefined", v |-> <<>>]

\* A value that is not a string (a number, as a client may send one).
NumberVal == [t |-> "number", v |-> <<"7">>]

Str(s) == [t |-> "string", v |-> s]

IsString(x) == x.t = "string"

\* A text (the value of a template literal, of JSON.stringify, of a message)
\* is a sequence of parts: a literal chunk, embedded characters or a number.
Lit(l) == [k |-> "lit", lit |-> l, val |-> <<>>, n |-> 0]

Chars(s) == [k |-> "chars", lit |-> "", val |-> s, n |-> 0]

NumPart(i) == [k |-> "num", lit |-> "", val |-> <<>>, n |-> i]

\* Newline followed by d levels of the two-space indentation.
Indent(d) == [k |-> "indent", lit |-> "", val |-> <<>>, n |-> d]

----------------------------------------------------------------------------
(* JSON values and JSON.stringify(value, null, 2) *)

JNull == [j |-> "null"]

JNum(i) == [j |-> "num", n |-> i]

JStr(s) == [j |-> "str", s |-> s]

JArr(items) == [j |-> "arr", items |-> items]

\* fields: a sequence of [key, val], in insertion order
JObj(fields) == [j |-> "obj", fields |-> fields]

Field(k, v) == [key |-> k, val |-> v]

\* (mutant) no character is escaped
EscapeNothing(s) == s

RECURSIVE Escape(_)
\* The escapes of a JSON string, on the characters of the model.
Escape(s) ==
    IF s = <<>> THEN <<>>
    ELSE (IF Head(s) \in {"\"", "\\"} THEN <<"\\", Head(s)>> ELSE <<Head(s)>>) \o Escape(Tail(s))

Quoted(s) == Chars(<<"\"">> \o Escape(s) \o <<"\"">>)

RECURSIVE Stringify(_, _)
RECURSIVE StringifyItems(_, _)
RECURSIVE StringifyFields(_, _)
StringifyItems(items, d) ==
    IF items = <<>> THEN <<>>
    ELSE <<Indent(d)>> \o Stringify(Head(items), d)
         \o (IF Len(items) > 1 THEN <<Lit(",")>> ELSE <<>>)
         \o StringifyItems(Tail(items), d)

StringifyFields(fields, d) ==
    IF fields = <<>> THEN <<>>
    ELSE <<Indent(d), Quoted(Head(fields).key), Lit(": ")>> \o Stringify(Head(fields).val, d)
         \o (IF Len(fields) > 1 THEN <<Lit(",")>> ELSE <<>>)
         \o StringifyFields(Tail(fields), d)

Stringify(x, d) ==
    CASE x.j = "null" -> <<Lit("null")>>
      [] x.j = "num" -> <<NumPart(x.n)>>
      [] x.j = "str" -> <<Quoted(x.s)>>
      [] x.j = "arr" -> IF x.items = <<>> THEN <<Lit("[]")>>
                        ELSE <<Lit("[")>> \o StringifyItems(x.items, d + 1) \o <<Indent(d), Lit("]")>>
      [] x.j = "obj" -> IF x.fields = <<>> THEN <<Lit("{}")>>
                        ELSE <<Lit("{")>> \o StringifyFields(x.fields, d + 1) \o <<Indent(d), Lit("}")>>

JsonStringify(x) == Stringify(x, 0)

----------------------------------------------------------------------------
(* parseLinkHeader: the result is the object `links`, a sequence of        *)
(* [key, val] in insertion order, as JObj holds its fields.                *)

RECURSIVE TrimLeft(_)
TrimLeft(s) == IF s # <<>> /\ Head(s) = " " THEN TrimLeft(Tail(s)) ELSE s

\* String.prototype.trim
Trim(s) == StripTrailingSpace(TrimLeft(s))

RECURSIVE RemoveQuotes(_)
\* replace(/"/g, '')
RemoveQuotes(s) ==
    IF s = <<>> THEN <<>>
    ELSE (IF Head(s) = "\"" THEN <<>> ELSE <<Head(s)>>) \o RemoveQuotes(Tail(s))

\* section[0].match(/<(.*)>/) finds a match
HasAngleUrl(s) == \E i \in 1..Len(s) : \E j \in (i + 1)..Len(s) : s[i] = "<" /\ s[j] = ">"

\* obj[key] = val on an object held as a sequence of [key, val]
SetKey(obj, k, v) ==
    IF \E i \in 1..Len(obj) : obj[i].key = k
    THEN [i \in 1..Len(obj) |-> IF obj[i].key = k THEN [key |-> k, val |-> v] ELSE obj[i]]
    ELSE Append(obj, [key |-> k, val |-> v])

HasKey(obj, k) == \E i \in 1..Len(obj) : obj[i].key = k

\* obj[key] of a key that is present
GetKey(obj, k) == obj[CHOOSE i \in 1..Len(obj) : obj[i].key = k].val

RECURSIVE LinkParams(_, _)
\* section.slice(1).forEach(paramPart => ...)
LinkParams(paramParts, params) ==
    IF paramParts = <<>> THEN params
    ELSE LET param == SplitOn(Trim(Head(paramParts)), {"="})
         IN  LinkParams(Tail(paramParts),
                        IF Len(param) = 2
                        THEN SetKey(params, param[1], RemoveQuotes(param[2]))
                        ELSE params)

W_rel == <<"r", "e", "l">>

W_results == <<"r", "e", "s", "u", "l", "t", "s">>

W_cursor == <<"c", "u", "r", "s", "o", "r">>

W_true == <<"t", "r", "u", "e">>

\* A JavaScript string is truthy when it is not empty.
Truthy(obj, k) == HasKey(obj, k) /\ GetKey(obj, k) # <<>>

RECURSIVE LinkPartsAnyResults(_, _)
\* (mutant) the results parameter is not looked at
LinkPartsAnyResults(parts, links) ==
    IF parts = <<>> THEN links
    ELSE LET section == SplitOn(Head(parts), {";"})
             params == LinkParams(Tail(section), <<>>)
         IN  LinkPartsAnyResults(Tail(parts),
                 IF Len(section) < 2 THEN links
                 ELSE IF ~HasAngleUrl(section[1]) THEN links
                 ELSE IF Truthy(params, W_rel) /\ Truthy(params, W_cursor)
                      THEN SetKey(links, GetKey(params, W_rel), GetKey(params, W_cursor))
                      ELSE links)

RECURSIVE LinkPartsStopAtMalformed(_, _)
\* (mutant) a malformed part ends the loop instead of being skipped
LinkPartsStopAtMalformed(parts, links) ==
    IF parts = <<>> THEN links
    ELSE LET section == SplitOn(Head(parts), {";"})
             params == LinkParams(Tail(section), <<>>)
         IN  IF Len(section) < 2 THEN links
             ELSE IF ~HasAngleUrl(section[1]) THEN links
             ELSE LinkPartsStopAtMalformed(Tail(parts),
                      IF /\ Truthy(params, W_rel)
                         /\ HasKey(params, W_results) /\ GetKey(params, W_results) = W_true
                         /\ Truthy(params, W_cursor)
                      THEN SetKey(links, GetKey(params, W_rel), GetKey(params, W_cursor))
                      ELSE links)

RECURSIVE LinkParts(_, _)
\* parts.forEach(part => ...)
LinkParts(parts, links) ==
    IF parts = <<>> THEN links
    ELSE LET section == SplitOn(Head(parts), {";"})
             params == LinkParams(Tail(section), <<>>)
         IN  LinkParts(Tail(parts),
                 IF Len(section) < 2 THEN links
                 ELSE IF ~HasAngleUrl(section[1]) THEN links
                 ELSE IF /\ Truthy(params, W_rel)
                         /\ HasKey(params, W_results) /\ GetKey(params, W_results) = W_true
                         /\ Truthy(params, W_cursor)
                      THEN SetKey(links, GetKey(params, W_rel), GetKey(params, W_cursor))
                      ELSE links)

parseLinkHeader(header) ==
    IF header.t = "undefined" \/ header.v = <<>> THEN <<>>
    ELSE LinkParts(SplitOn(header.v, {","}), <<>>)

\* The object `links` as JSON.stringify sees it.
LinksJson(links) == JObj([i \in 1..Len(links) |-> Field(links[i].key, JStr(links[i].val))])

----------------------------------------------------------------------------
(* Faults, requests, results *)

\* A dynamic string the model does not look into (an error message, a status text).
Txt(m) == [k |-> "text", lit |-> m, val |-> <<>>, n |-> 0]

NoFault == [code |-> "none", message |-> <<>>]

McpError(code, message) == [code |-> code, message |-> message]

NoRequest == [method |-> "none", url |-> <<>>, params |-> <<>>]

\* this.axiosInstance.get(url, { params })
Get(url, params) == [method |-> "GET", url |-> url, params |-> params]

Absent == [present |-> FALSE, value |-> FALSE]

Present(b) == [present |-> TRUE, value |-> b]

NoResult == [content |-> <<>>, isError |-> Absent]

\* { content: [ { type: 'text', text } ] }
SuccessResult(text) == [content |-> <<[type |-> "text", text |-> text]>>, isError |-> Absent]

\* (mutant) the failure result lacks isError
ErrorResultNoFlag(text) == [content |-> <<[type |-> "text", text |-> text]>>, isError |-> Absent]

\* { content: [ { type: 'text', text: errorMessage } ], isError: true }
ErrorResult(text) == [content |-> <<[type |-> "text", text |-> text]>>, isError |-> Present(TRUE)]

\* What a stretch of the handler ends with: a throw, an await of a GET at the
\* await point `at`, a return, or a break out of the switch.
Throw(fault) ==
    [kind |-> "throw", fault |-> fault, req |-> NoRequest, at |-> "none", result |-> NoResult]

Await(at, req) ==
    [kind |-> "await", fault |-> NoFault, req |-> req, at |-> at, result |-> NoResult]

Return(result) ==
    [kind |-> "return", fault |-> NoFault, req |-> NoRequest, at |-> "none", result |-> result]

Break == [kind |-> "break", fault |-> NoFault, req |-> NoRequest, at |-> "none", result |-> NoResult]

----------------------------------------------------------------------------
(* The handler up to its await *)

W_issuesSlash == <<"i", "s", "s", "u", "e", "s", "/">>

W_projectsSlash == <<"p", "r", "o", "j", "e", "c", "t", "s", "/">>

W_slashIssuesSlash == <<"/", "i", "s", "s", "u", "e", "s", "/">>

W_slashEventsSlash == <<"/", "e", "v", "e", "n", "t", "s", "/">>

\* /^[a-f0-9]{32}$/i
EventIdLength == 32

\* (mutant) /^[a-f0-9]+$/i: the length is not checked
EventIdAnyLength(s) == \A i \in 1..Len(s) : s[i] \in Digit \cup HexLower \cup HexUpper

EventIdRegexTest(s) ==
    Len(s) = EventIdLength /\ \A i \in 1..Len(s) : s[i] \in Digit \cup HexLower \cup HexUpper

\* (mutant) the path is built from the input as given, not from the parsed id
IssueLogicRawInput(args) ==
    LET issueInput == args.issue_id_or_url
    IN  IF ~IsString(issueInput)
        THEN Throw(McpError("InvalidParams",
                 <<Lit("Invalid arguments: issue_id_or_url must be a string.")>>))
        ELSE LET parsedInput == parseSentryIssueInput(issueInput.v)
             IN  IF ~parsedInput.found
                 THEN Throw(McpError("InvalidParams",
                          <<Lit("Invalid Sentry issue ID or URL format: "), Chars(issueInput.v)>>))
                 ELSE Await("get_sentry_issue",
                            Get(W_issuesSlash \o issueInput.v \o <<"/">>, <<>>))

\* (mutant) an input that cannot be parsed is not rejected by a throw: the
\* handler runs to its end without returning
IssueLogicNoThrow(args) ==
    LET issueInput == args.issue_id_or_url
    IN  IF ~IsString(issueInput)
        THEN Throw(McpError("InvalidParams",
                 <<Lit("Invalid arguments: issue_id_or_url must be a string.")>>))
        ELSE LET parsedInput == parseSentryIssueInput(issueInput.v)
             IN  IF ~parsedInput.found
                 THEN Break
                 ELSE Await("get_sentry_issue",
                            Get(W_issuesSlash \o parsedInput.issueId \o <<"/">>, <<>>))

\* The get_sentry_issue logic placed after the switch.
IssueLogic(args) ==
    LET issueInput == args.issue_id_or_url
    IN  IF ~IsString(issueInput)
        THEN Throw(McpError("InvalidParams",
                 <<Lit("Invalid arguments: issue_id_or_url must be a string.")>>))
        ELSE LET parsedInput == parseSentryIssueInput(issueInput.v)
             IN  IF ~parsedInput.found
                 THEN Throw(McpError("InvalidParams",
                          <<Lit("Invalid Sentry issue ID or URL format: "), Chars(issueInput.v)>>))
                 ELSE Await("get_sentry_issue",
                            Get(W_issuesSlash \o parsedInput.issueId \o <<"/">>, <<>>))

\* case 'list_organization_projects'
ListOrganizationProjectsCase(args) == Await("list_organization_projects", Get(W_projectsSlash, <<>>))

\* (mutant) any string is forwarded, the empty one included
ApiParamAnyString(params, key, x) ==
    IF IsString(x) THEN Append(params, [key |-> key, val |-> x.v]) ELSE params

\* apiParams, an object held as a sequence of [key, val]
ApiParam(params, key, x) ==
    IF IsString(x) /\ Len(x.v) > 0 THEN Append(params, [key |-> key, val |-> x.v]) ELSE params

ApiParams(args) ==
    ApiParam(ApiParam(ApiParam(<<>>, "query", args.query), "statsPeriod", args.statsPeriod),
             "cursor", args.cursor)

OrganizationSlug(args, defaultOrgSlug) ==
    IF IsString(args.organization_slug) THEN args.organization_slug.v ELSE defaultOrgSlug

ProjectSlugFault ==
    McpError("InvalidParams",
             <<Lit("Missing or invalid argument: project_slug must be a non-empty string.")>>)

\* (mutant) project_slug is checked for its type only, the empty string passes
ListProjectIssuesCaseTypeOnly(args, defaultOrgSlug) ==
    LET organization_slug == OrganizationSlug(args, defaultOrgSlug)
        project_slug == args.project_slug
    IN  IF ~IsString(project_slug)
        THEN Throw(ProjectSlugFault)
        ELSE Await("list_project_issues",
                   Get(W_projectsSlash \o organization_slug \o <<"/">> \o project_slug.v
                           \o W_slashIssuesSlash,
                       ApiParams(args)))

\* case 'list_project_issues'
ListProjectIssuesCase(args, defaultOrgSlug) ==
    LET organization_slug == OrganizationSlug(args, defaultOrgSlug)
        project_slug == args.project_slug
    IN  IF ~IsString(project_slug) \/ Len(project_slug.v) = 0
        THEN Throw(ProjectSlugFault)
        ELSE Await("list_project_issues",
                   Get(W_projectsSlash \o organization_slug \o <<"/">> \o project_slug.v
                           \o W_slashIssuesSlash,
                       ApiParams(args)))

EventIdFormatMessage(event_id) ==
    <<Lit("Invalid event_id format: '"), Chars(event_id),
      Lit("'. Please provide a valid 32-character hexadecimal Sentry Event ID. You can get this by clicking 'Copy Event ID' in Sentry.")>>

\* (mutant) the GET is issued before event_id has been validated
GetEventDetailsCaseUnchecked(args, defaultOrgSlug) ==
    LET organization_slug == OrganizationSlug(args, defaultOrgSlug)
        project_slug == args.project_slug
        event_id == args.event_id
    IN  IF ~IsString(project_slug) \/ Len(project_slug.v) = 0
        THEN Throw(ProjectSlugFault)
        ELSE Await("get_event_details",
                   Get(W_projectsSlash \o organization_slug \o <<"/">> \o project_slug.v
                           \o W_slashEventsSlash \o event_id.v \o <<"/">>,
                       <<>>))

\* case 'get_event_details'
GetEventDetailsCase(args, defaultOrgSlug) ==
    LET organization_slug == OrganizationSlug(args, defaultOrgSlug)
        project_slug == args.project_slug
        event_id == args.event_id
    IN  IF ~IsString(project_slug) \/ Len(project_slug.v) = 0
        THEN Throw(ProjectSlugFault)
        ELSE IF ~IsString(event_id)
        THEN Throw(McpError("InvalidParams",
                 <<Lit("Missing or invalid argument: event_id must be a string.")>>))
        ELSE IF ~EventIdRegexTest(event_id.v)
        THEN Throw(McpError("InvalidParams", EventIdFormatMessage(event_id.v)))
        ELSE Await("get_event_details",
                   Get(W_projectsSlash \o organization_slug \o <<"/">> \o project_slug.v
                           \o W_slashEventsSlash \o event_id.v \o <<"/">>,
                       <<>>))

UnknownTool(name) == Throw(McpError("MethodNotFound", <<Lit("Unknown tool: "), Txt(name)>>))

\* (mutant) the switch has no default case
SwitchOnNameNoDefault(name, args, defaultOrgSlug) ==
    CASE name = "list_organization_projects" -> ListOrganizationProjectsCase(args)
      [] name = "list_project_issues" -> ListProjectIssuesCase(args, defaultOrgSlug)
      [] name = "get_event_details" -> GetEventDetailsCase(args, defaultOrgSlug)
      [] OTHER -> Break

\* switch (request.params.name)
SwitchOnName(name, args, defaultOrgSlug) ==
    CASE name = "get_sentry_issue" -> Break
      [] name = "list_organization_projects" -> ListOrganizationProjectsCase(args)
      [] name = "list_project_issues" -> ListProjectIssuesCase(args, defaultOrgSlug)
      [] name = "get_event_details" -> GetEventDetailsCase(args, defaultOrgSlug)
      [] OTHER -> UnknownTool(name)

\* A stretch of the handler that leaves the switch by break runs into the
\* get_sentry_issue logic below it.
AfterSwitch(step, args) == IF step.kind = "break" THEN IssueLogic(args) ELSE step

\* The handler from its entry to its first throw, await or return.
HandlerEntry(name, args, defaultOrgSlug) ==
    AfterSwitch(SwitchOnName(name, args, defaultOrgSlug), args)

----------------------------------------------------------------------------
(* The handler after its await *)

\* How the awaited GET settles: fulfilled with a response, or rejected with
\* an AxiosError (with or without a response), another Error, or a value
\* that is no Error.
Fulfilled(data, link) ==
    [kind |-> "fulfilled", hasResponse |-> TRUE, status |-> 200, statusText |-> "OK",
     data |-> data, link |-> link, message |-> ""]

AxiosErrorWithResponse(status, statusText, data) ==
    [kind |-> "axios_error", hasResponse |-> TRUE, status |-> status, statusText |-> statusText,
     data |-> data, link |-> Undefined, message |-> "Request failed"]

AxiosErrorNoResponse(message) ==
    [kind |-> "axios_error", hasResponse |-> FALSE, status |-> 0, statusText |-> "",
     data |-> JNull, link |-> Undefined, message |-> message]

OtherError(message) ==
    [kind |-> "error", hasResponse |-> FALSE, status |-> 0, statusText |-> "",
     data |-> JNull, link |-> Undefined, message |-> message]

NotAnError ==
    [kind |-> "not_error", hasResponse |-> FALSE, status |-> 0, statusText |-> "",
     data |-> JNull, link |-> Undefined, message |-> ""]

\* `Sentry API error: ${error.response?.status} ${error.response?.statusText}. ${JSON.stringify(error.response?.data)}`
AxiosErrorMessage(error) ==
    IF error.hasResponse
    THEN <<Lit("Sentry API error: "), NumPart(error.status), Lit(" "), Txt(error.statusText),
           Lit(". ")>> \o JsonStringify(error.data)
    ELSE <<Lit("Sentry API error: "), Lit("undefined"), Lit(" "), Lit("undefined"),
           Lit(". "), Lit("undefined")>>

DefaultMessage(at) ==
    CASE at = "list_organization_projects" -> "Failed to list Sentry projects."
      [] at = "list_project_issues" -> "Failed to list Sentry project issues."
      [] at = "get_event_details" -> "Failed to fetch Sentry event details."
      [] OTHER -> "Failed to fetch Sentry issue."

\* let errorMessage = ...; if (axios.isAxiosError(error)) ... else if (error instanceof Error) ...
ErrorMessage(at, error) ==
    IF error.kind = "axios_error" THEN AxiosErrorMessage(error)
    ELSE IF error.kind = "error" THEN <<Txt(error.message)>>
    ELSE <<Lit(DefaultMessage(at))>>

\* (mutant) the catch block rethrows the failure as a protocol fault
OnRejectedRethrow(at, error) == Throw(McpError("InternalError", ErrorMessage(at, error)))

\* (mutant) the catch block does not return: control leaves the switch
OnRejectedNoReturn(at, error) == Break

\* The catch block of the await point `at`.
OnRejected(at, error) == Return(ErrorResult(ErrorMessage(at, error)))

\* (mutant) the cursors are kept in an object shared by all invocations: a
\* response without cursors of its own shows those of another invocation
OnFulfilledSharedLinks(at, response) ==
    IF at = "list_project_issues"
    THEN LET own == parseLinkHeader(response.link)
             others == {j \in DOMAIN calls : /\ calls[j].settled # <<>>
                                             /\ calls[j].settled[1].kind = "fulfilled"}
             paginationInfo ==
                 IF own = <<>> /\ others # {}
                 THEN parseLinkHeader(calls[CHOOSE j \in others : TRUE].settled[1].link)
                 ELSE own
         IN  Return(SuccessResult(JsonStringify(
                 JObj(<<Field(W_issues, response.data),
                        Field(<<"p", "a", "g", "i", "n", "a", "t", "i", "o", "n">>,
                              LinksJson(paginationInfo))>>))))
    ELSE Return(SuccessResult(JsonStringify(response.data)))

\* (mutant) the try block does not return: control leaves the switch
OnFulfilledNoReturn(at, response) == Break

\* The rest of the try block of the await point `at`.
OnFulfilled(at, response) ==
    IF at = "list_project_issues"
    THEN LET paginationInfo == parseLinkHeader(response.link)
         IN  Return(SuccessResult(JsonStringify(
                 JObj(<<Field(W_issues, response.data),
                        Field(<<"p", "a", "g", "i", "n", "a", "t", "i", "o", "n">>,
                              LinksJson(paginationInfo))>>))))
    ELSE Return(SuccessResult(JsonStringify(response.data)))

\* The handler from the settling of its await to its next throw, await or return.
\* The await points inside the switch are followed by the code below the
\* switch; the await point of the get_sentry_issue logic is followed by the
\* end of the handler.
HandlerResume(at, args, settlement) ==
    LET step == IF settlement.kind = "fulfilled"
                THEN OnFulfilled(at, settlement)
                ELSE OnRejected(at, settlement)
    IN  IF at = "get_sentry_issue" THEN step ELSE AfterSwitch(step, args)

----------------------------------------------------------------------------
(* Startup: the environment checks at module load and the constructor *)

W_defaultBaseUrl ==
    <<"h", "t", "t", "p", "s", ":", "/", "/", "s", "e", "n", "t", "r", "y", ".", "i", "o">>

W_api0 == <<"/", "a", "p", "i", "/", "0", "/">>

W_bearer == <<"B", "e", "a", "r", "e", "r", " ">>

\* !x for an environment variable: unset or empty
Falsy(x) == x.t = "undefined" \/ x.v = <<>>

NoConfig ==
    [baseURL |-> <<>>, authorization |-> <<>>, defaultOrgSlug |-> <<>>, projectSlugs |-> <<>>]

\* SENTRY_PROJECT_NAMES.split(',').map(s => s.trim()).filter(s => s.length > 0)
ProjectSlugs(names) == SelectSeq([i \in 1..Len(SplitOn(names, {","})) |->
                                     Trim(SplitOn(names, {","})[i])],
                                 LAMBDA x : Len(x) > 0)

\* The values the constructor captures.
Constructed(e) ==
    [baseURL |-> (IF Falsy(e.SENTRY_BASE_URL) THEN W_defaultBaseUrl ELSE e.SENTRY_BASE_URL.v)
                     \o W_api0,
     authorization |-> W_bearer \o e.SENTRY_AUTH_TOKEN.v,
     defaultOrgSlug |-> e.SENTRY_ORG_SLUG.v,
     projectSlugs |-> ProjectSlugs(e.SENTRY_PROJECT_NAMES.v)]

\* (mutant) only the token is checked at module load
StartupExitsTokenOnly(e) == Falsy(e.SENTRY_AUTH_TOKEN)

\* The message of the check that fails first.
StartupMessage(e) ==
    IF Falsy(e.SENTRY_AUTH_TOKEN)
    THEN "Error: SENTRY_AUTH_TOKEN environment variable is required."
    ELSE "Error: SENTRY_ORG_SLUG and SENTRY_PROJECT_NAMES environment variables must be set."

\* The checks at module load: TRUE when process.exit(1) is called.
StartupExits(e) ==
    Falsy(e.SENTRY_AUTH_TOKEN) \/ Falsy(e.SENTRY_ORG_SLUG) \/ Falsy(e.SENTRY_PROJECT_NAMES)

----------------------------------------------------------------------------
(* State *)

NoArgs ==
    [issue_id_or_url |-> Undefined, organization_slug |-> Undefined, project_slug |-> Undefined,
     query |-> Undefined, statsPeriod |-> Undefined, cursor |-> Undefined, event_id |-> Undefined]

\* An invocation slot: pc is "idle" (no request being handled), "await"
\* (suspended at the await point `at`) or "done"; reqs are the GETs issued,
\* settled how they settled, outs the outcomes (faults thrown, results returned).
Idle ==
    [pc |-> "idle", name |-> "", args |-> NoArgs, at |-> "none", reqs |-> <<>>,
     settled |-> <<>>, outs |-> <<>>]

FaultOutcome(fault) == [kind |-> "fault", fault |-> fault, result |-> NoResult]

ResultOutcome(result) == [kind |-> "result", fault |-> NoFault, result |-> result]

\* The request as the axios instance sends it.
Sent(req, cfg) ==
    [method |-> req.method, url |-> req.url, params |-> req.params,
     baseURL |-> cfg.baseURL, authorization |-> cfg.authorization]

\* The slot after a stretch of the handler that ended with `step`.
AfterStep(c, step, cfg) ==
    CASE step.kind = "throw" ->
           [c EXCEPT !.pc = "done", !.at = "none", !.outs = Append(@, FaultOutcome(step.fault))]
      [] step.kind = "await" ->
           [c EXCEPT !.pc = "await", !.at = step.at, !.reqs = Append(@, Sent(step.req, cfg))]
      [] step.kind = "return" ->
           [c EXCEPT !.pc = "done", !.at = "none", !.outs = Append(@, ResultOutcome(step.result))]
      [] OTHER -> [c EXCEPT !.pc = "done", !.at = "none"]

----------------------------------------------------------------------------
(* Inputs *)

\* The string of n characters c.
Rep(c, n) == [i \in 1..n |-> c]

\* All strings over `alphabet` of length 0..n.
StringsUpTo(alphabet, n) == UNION {[1..k -> alphabet] : k \in 0..n}

ToolNames ==
    {"get_sentry_issue", "list_organization_projects", "list_project_issues", "get_event_details"}

\* Names a client may send: the four tools and names that are none of them.
Names == ToolNames \cup {"unknown_tool", "get_issue", ""}

W_sentryExample == <<"h", "t", "t", "p", "s", ":", "/", "/", "o", "r", "g", ".", "s", "e", "n", "t", "r", "y", ".", "i", "o", "/", "i", "s", "s", "u", "e", "s", "/", "6", "3", "8", "0", "4", "5", "4", "5", "3", "0", "/">>

W_exampleId == <<"6", "3", "8", "0", "4", "5", "4", "5", "3", "0">>

\* issue_id_or_url as sent to the handler
IssueInputs ==
    {Undefined, NumberVal, Str(<<>>), Str(<<"1", "2">>), Str(<<"0", "0", "7">>),
     Str(<<"1", "x">>), Str(<<"x">>),
     Str(W_sentryExample),
     Str(W_https \o <<"h", "/">> \o W_issues \o <<"/", "1", "2">>),
     Str(W_http \o <<"h", "/">> \o W_issues \o <<"/", "x", "/">> \o W_issues \o <<"/", "1", "2">>),
     Str(W_https \o <<"h", "/">> \o W_issues \o <<"/">>),
     Str(W_https \o <<"h", "/", "x">>),
     Str(W_http),
     Str(W_https \o <<"h", " ", "h", "/">> \o W_issues \o <<"/", "1", "2">>)}

OrgInputs == {Undefined, NumberVal, Str(<<>>), Str(<<"o", "2">>)}

ProjectInputs == {Undefined, NumberVal, Str(<<>>), Str(<<"p">>)}

OptionalInputs == {Undefined, NumberVal, Str(<<>>), Str(<<"q">>), Str(<<"1", "4", "d">>)}

EventIdStrings ==
    {Rep(c, n) : c \in {"a", "A", "0", "9", "f", "F", "g", "G", "-"},
                 n \in {0, 3, EventIdLength - 1, EventIdLength, EventIdLength + 1}}
    \cup {[Rep("a", EventIdLength) EXCEPT ![k] = c] : k \in {1, EventIdLength},
                                                     c \in {"g", "B", "5", " "}}

EventIdInputs == {Undefined, NumberVal} \cup {Str(s) : s \in EventIdStrings}

\* An issue_id_or_url sent along with the arguments of another tool.
StrayIssueInputs == {Undefined, Str(<<"1", "2">>)}

ArgsFor(name) ==
    CASE name = "get_sentry_issue" ->
           {[NoArgs EXCEPT !.issue_id_or_url = x, !.project_slug = p] :
                x \in IssueInputs, p \in {Undefined, Str(<<"p">>)}}
      [] name = "list_organization_projects" ->
           {[NoArgs EXCEPT !.issue_id_or_url = x] : x \in StrayIssueInputs}
      [] name = "list_project_issues" ->
           {[NoArgs EXCEPT !.issue_id_or_url = x, !.organization_slug = o, !.project_slug = p,
                           !.query = q, !.statsPeriod = sp, !.cursor = c] :
                x \in StrayIssueInputs, o \in OrgInputs, p \in ProjectInputs,
                q \in OptionalInputs, sp \in OptionalInputs, c \in OptionalInputs}
      [] name = "get_event_details" ->
           {[NoArgs EXCEPT !.issue_id_or_url = x, !.organization_slug = o, !.project_slug = p,
                           !.event_id = e] :
                x \in StrayIssueInputs, o \in OrgInputs, p \in ProjectInputs, e \in EventIdInputs}
      [] OTHER ->
           {[NoArgs EXCEPT !.issue_id_or_url = x, !.project_slug = p, !.event_id = e] :
                x \in StrayIssueInputs, p \in {Undefined, Str(<<"p">>)},
                e \in {Undefined, Str(Rep("a", EventIdLength))}}

Payloads ==
    {JArr(<<>>), JStr(<<>>),
     JObj(<<Field(<<"i", "d">>, JStr(<<"1", "2">>)), Field(<<"c", "o", "u", "n", "t">>, JNum(3))>>),
     JArr(<<JObj(<<Field(<<"i", "d">>, JStr(<<"1">>))>>), JNull>>),
     JObj(<<Field(<<"t">>, JStr(<<"a", "\\", "\"">>)), Field(<<"t", "a", "g", "s">>, JArr(<<>>))>>)}

W_linkNext == <<"<", "h", "t", "t", "p", "s", ":", "/", "/", "x", "/", "?", "c", "u", "r", "s", "o", "r", "=", "a", "b", "c", ">", ";", " ", "r", "e", "l", "=", "\"", "n", "e", "x", "t", "\"", ";", " ", "r", "e", "s", "u", "l", "t", "s", "=", "\"", "t", "r", "u", "e", "\"", ";", " ", "c", "u", "r", "s", "o", "r", "=", "\"", "a", "b", "c", ":", "0", ":", "0", "\"">>

W_linkPrevNoResults == <<"<", "h", "t", "t", "p", "s", ":", "/", "/", "x", "/", "?", "c", "u", "r", "s", "o", "r", "=", "p", ">", ";", " ", "r", "e", "l", "=", "\"", "p", "r", "e", "v", "i", "o", "u", "s", "\"", ";", " ", "r", "e", "s", "u", "l", "t", "s", "=", "\"", "f", "a", "l", "s", "e", "\"", ";", " ", "c", "u", "r", "s", "o", "r", "=", "\"", "p", ":", "0", ":", "1", "\"">>

\* Sentry names the relation of the page before `previous`.
W_linkPrevious == <<"<", "h", "t", "t", "p", "s", ":", "/", "/", "x", "/", "?", "c", "u", "r", "s", "o", "r", "=", "p", ">", ";", " ", "r", "e", "l", "=", "\"", "p", "r", "e", "v", "i", "o", "u", "s", "\"", ";", " ", "r", "e", "s", "u", "l", "t", "s", "=", "\"", "t", "r", "u", "e", "\"", ";", " ", "c", "u", "r", "s", "o", "r", "=", "\"", "p", ":", "0", ":", "1", "\"">>

LinkHeaders ==
    {Undefined, Str(<<>>), Str(W_linkNext), Str(W_linkPrevNoResults \o <<",", " ">> \o W_linkNext),
     Str(W_linkPrevious \o <<",", " ">> \o W_linkNext)}

ErrorBodies == {JStr(<<>>), JObj(<<Field(<<"d", "e", "t", "a", "i", "l">>, JStr(<<"n", "o">>))>>)}

Fulfilments == {Fulfilled(d, l) : d \in Payloads, l \in LinkHeaders}

Rejections ==
    {AxiosErrorWithResponse(404, "Not Found", b) : b \in ErrorBodies}
    \cup {AxiosErrorWithResponse(500, "Internal Server Error", b) : b \in ErrorBodies}
    \cup {AxiosErrorNoResponse("connect ECONNREFUSED"),
          AxiosErrorNoResponse("timeout of 1000ms exceeded"),
          OtherError("socket hang up"), NotAnError}

Environments ==
    [SENTRY_AUTH_TOKEN : {Undefined, Str(<<"t", "k">>)},
     SENTRY_ORG_SLUG : {Undefined, Str(<<>>), Str(<<"o", "1">>)},
     SENTRY_PROJECT_NAMES : {Undefined, Str(<<"p", ",", " ", "p", "2">>)},
     SENTRY_BASE_URL : {Undefined, Str(W_https \o <<"h">>)}]

----------------------------------------------------------------------------
(* The server: startup, then one handler invocation after another *)

NoSample ==
    [fn |-> "none", input |-> <<>>, header |-> Undefined, applied |-> FALSE, issue |-> NoMatch,
     links |-> <<>>]

Init ==
    /\ env \in Environments
    /\ proc = "starting"
    /\ exitCode = -1
    /\ config = NoConfig
    /\ calls = [i \in {1} |-> Idle]
    /\ sample = NoSample
    /\ startupError = ""

\* Module load with an incomplete environment: console.error and process.exit(1).
StartupExit ==
    /\ proc = "starting"
    /\ StartupExits(env)
    /\ proc' = "exited"
    /\ exitCode' = 1
    /\ startupError' = StartupMessage(env)
    /\ UNCHANGED <<env, config, calls, sample>>

\* Module load with a complete environment, new SentryServer() and run().
StartupRun ==
    /\ proc = "starting"
    /\ ~StartupExits(env)
    /\ proc' = "running"
    /\ config' = Constructed(env)
    /\ UNCHANGED <<env, exitCode, calls, sample, startupError>>

\* (mutant) the organization of the call is stored as the default organization
InvokeOverwritesDefault(i, name, args) ==
    /\ calls' = [calls EXCEPT ![i] =
                     AfterStep([Idle EXCEPT !.name = name, !.args = args],
                               HandlerEntry(name, args, config.defaultOrgSlug), config)]
    /\ config' = [config EXCEPT !.defaultOrgSlug = OrganizationSlug(args, config.defaultOrgSlug)]
    /\ UNCHANGED <<env, proc, exitCode, sample, startupError>>

\* A tools/call request arrives: the handler runs to its first throw or await.
Invoke(i, name, args) ==
    /\ calls' = [calls EXCEPT ![i] =
                     AfterStep([Idle EXCEPT !.name = name, !.args = args],
                               HandlerEntry(name, args, config.defaultOrgSlug), config)]
    /\ UNCHANGED <<env, proc, exitCode, config, sample, startupError>>

\* The awaited GET settles: the handler runs to its next throw, await or return.
Settle(i, settlement) ==
    /\ calls' = [calls EXCEPT ![i] =
                     AfterStep([calls[i] EXCEPT !.settled = Append(@, settlement)],
                               HandlerResume(calls[i].at, calls[i].args, settlement), config)]
    /\ UNCHANGED <<env, proc, exitCode, config, sample, startupError>>

\* The outcome has been sent to the client; the next request may arrive.
Finish(i) ==
    /\ calls' = [calls EXCEPT ![i] = Idle]
    /\ UNCHANGED <<env, proc, exitCode, config, sample, startupError>>

InvokeAny ==
    /\ proc = "running"
    /\ \E i \in DOMAIN calls :
          /\ calls[i].pc = "idle"
          /\ \E name \in Names : \E args \in ArgsFor(name) : Invoke(i, name, args)

GetFulfilled ==
    /\ proc = "running"
    /\ \E i \in DOMAIN calls :
          /\ calls[i].pc = "await"
          /\ \E r \in Fulfilments : Settle(i, r)

GetRejected ==
    /\ proc = "running"
    /\ \E i \in DOMAIN calls :
          /\ calls[i].pc = "await"
          /\ \E r \in Rejections : Settle(i, r)

FinishAny ==
    /\ proc = "running"
    /\ \E i \in DOMAIN calls : calls[i].pc = "done" /\ Finish(i)

Next == StartupExit \/ StartupRun \/ InvokeAny \/ GetFulfilled \/ GetRejected \/ FinishAny

Spec == Init /\ [][Next]_vars

----------------------------------------------------------------------------
(* parseSentryIssueInput applied on its own *)

MaxSegs == 3

MaxBare == 4

PathSegments ==
    {W_issues, <<"1", "2">>, <<"0", "0", "7">>, <<"x">>, <<>>, <<".", ".">>, <<"1", "x">>}

RECURSIVE PathOf(_)
\* "/" before every segment
PathOf(segs) == IF segs = <<>> THEN <<>> ELSE <<"/">> \o Head(segs) \o PathOf(Tail(segs))

UrlPrefixes ==
    {W_http, W_https, <<"f", "t", "p", ":", "/", "/">>, <<"H", "T", "T", "P", "S", ":", "/", "/">>, <<>>}

UrlTails == {<<>>, <<"/">>, <<"?", "1", "2">>, <<"#", "/">> \o W_issues \o <<"/", "1", "2">>}

UrlInputs ==
    {pre \o host \o PathOf(segs) \o tail :
        pre \in UrlPrefixes, host \in {<<"h">>, <<"h", " ", "h">>},
        segs \in UNION {[1..k -> PathSegments] : k \in 0..MaxSegs}, tail \in UrlTails}

OddUrlInputs ==
    {W_http, W_https \o <<"?", "1", "2">>, W_sentryExample,
     W_https \o <<"/">> \o W_issues \o <<"/", "1", "2">>,
     W_https \o <<"h", "\\">> \o W_issues \o <<"\\", "1", "2">>,
     W_https \o <<"h", "/">> \o W_issues \o <<"/", ".", "/", "1", "2">>,
     W_https \o <<"h", "/">> \o W_issues \o <<"/", "1", "2", " ">>,
     W_https \o <<"h", "/">> \o W_issues \o <<"/", "1", " ", "2">>}

BareInputs == StringsUpTo({"0", "1", "9", "x", " ", "-"}, MaxBare)

ParseInputs == UrlInputs \cup OddUrlInputs \cup BareInputs

\* Link headers: segments in the format <url>; rel="R"; results="true"; cursor="C"
W_next == <<"n", "e", "x", "t">>

W_prev == <<"p", "r", "e", "v">>

W_previous == <<"p", "r", "e", "v", "i", "o", "u", "s">>

W_exampleCursor == <<"a", "b", "c", ":", "0", ":", "0">>

W_otherCursor == <<"p", ":", "0", ":", "1">>

ConvUrls ==
    {<<"h", "t", "t", "p", "s", ":", "/", "/", "x", "/", "?", "c", "u", "r", "s", "o", "r", "=", "a", "b", "c">>, <<"u">>, <<"h", "t", "t", "p", "s", ":", "/", "/", "x", "/", "?", "q", "=", "a", ",", "b">>,
     <<"h", "t", "t", "p", "s", ":", "/", "/", "x", "/", "a", ";", "b">>}

ConvRels == {W_next, W_prev, W_previous}

\* Opaque cursor tokens: Sentry's value:offset:is_prev, and a base64 token.
ConvCursors == {W_exampleCursor, W_otherCursor, <<"Y", "Q", "=", "=">>}

Conventional(u, r, c) ==
    <<"<">> \o u \o <<">", ";", " ", "r", "e", "l", "=", "\"">> \o r
        \o <<"\"", ";", " ", "r", "e", "s", "u", "l", "t", "s", "=", "\"", "t", "r", "u", "e", "\"", ";", " ", "c", "u", "r", "s", "o", "r", "=", "\"">> \o c
        \o <<"\"">>

\* Segments put together from a first part and parameters, each in several
\* forms or left out (<<>>).
UrlParts == {<<"<", "u", ">">>, <<"u">>, <<"<", ">">>, <<>>}

RelParams ==
    {<<>>, <<"r", "e", "l", "=", "\"", "n", "e", "x", "t", "\"">>, <<"r", "e", "l", "=", "\"", "p", "r", "e", "v", "i", "o", "u", "s", "\"">>, <<"r", "e", "l", "=", "\"", "\"">>, <<"r", "e", "l", "=", "n", "e", "x", "t">>}

ResultsParams ==
    {<<>>, <<"r", "e", "s", "u", "l", "t", "s", "=", "\"", "t", "r", "u", "e", "\"">>, <<"r", "e", "s", "u", "l", "t", "s", "=", "\"", "f", "a", "l", "s", "e", "\"">>, <<"r", "e", "s", "u", "l", "t", "s", "=", "t", "r", "u", "e">>,
     <<"r", "e", "s", "u", "l", "t", "s", "=", "\"", "T", "r", "u", "e", "\"">>, <<"r", "e", "s", "u", "l", "t", "s", "=", "\"", "\"">>}

CursorParams ==
    {<<>>, <<"c", "u", "r", "s", "o", "r", "=", "\"", "a", "b", "c", ":", "0", ":", "0", "\"">>, <<"c", "u", "r", "s", "o", "r", "=", "\"", "\"">>, <<"c", "u", "r", "s", "o", "r", "=", "a", "b", "c">>}

LinkParam(p) == IF p = <<>> THEN <<>> ELSE <<";", " ">> \o p

LinkSegments ==
    {u \o LinkParam(r) \o LinkParam(res) \o LinkParam(c) :
        u \in UrlParts, r \in RelParams, res \in ResultsParams, c \in CursorParams}
    \cup {Conventional(u, r, c) : u \in ConvUrls, r \in ConvRels, c \in ConvCursors}

\* The parts of the headers that have several.
HeaderParts ==
    {W_linkNext, W_linkPrevNoResults, Conventional(<<"u">>, W_previous, W_otherCursor),
     Conventional(<<"u">>, W_next, W_otherCursor), <<"<", "u", ">">>, <<"x">>, <<>>,
     <<"u", ";", " ", "r", "e", "l", "=", "\"", "p", "r", "e", "v", "\"", ";", " ", "r", "e", "s", "u", "l", "t", "s", "=", "\"", "t", "r", "u", "e", "\"", ";", " ", "c", "u", "r", "s", "o", "r", "=", "\"", "z", "\"">>}

MaxParts == 2

LinkHeaderInputs ==
    {Undefined, Str(<<>>)}
    \cup {Str(seg) : seg \in LinkSegments}
    \cup {Str(JoinWith(parts, <<",", " ">>)) :
             parts \in UNION {[1..k -> HeaderParts] : k \in 2..MaxParts}}

InitPure ==
    /\ env = [SENTRY_AUTH_TOKEN |-> Undefined, SENTRY_ORG_SLUG |-> Undefined,
              SENTRY_PROJECT_NAMES |-> Undefined, SENTRY_BASE_URL |-> Undefined]
    /\ proc = "starting"
    /\ exitCode = -1
    /\ config = NoConfig
    /\ calls = [i \in {1} |-> Idle]
    /\ sample \in {[NoSample EXCEPT !.fn = "parseSentryIssueInput", !.input = s] :
                       s \in ParseInputs}
                  \cup {[NoSample EXCEPT !.fn = "parseLinkHeader", !.header = h] :
                            h \in LinkHeaderInputs}
    /\ startupError = ""

ApplyParseSentryIssueInput ==
    /\ sample.fn = "parseSentryIssueInput"
    /\ ~sample.applied
    /\ sample' = [sample EXCEPT !.applied = TRUE, !.issue = parseSentryIssueInput(sample.input)]
    /\ UNCHANGED <<env, proc, exitCode, config, calls, startupError>>

ApplyParseLinkHeader ==
    /\ sample.fn = "parseLinkHeader"
    /\ ~sample.applied
    /\ sample' = [sample EXCEPT !.applied = TRUE, !.links = parseLinkHeader(sample.header)]
    /\ UNCHANGED <<env, proc, exitCode, config, calls, startupError>>

NextPure == ApplyParseSentryIssueInput \/ ApplyParseLinkHeader

SpecPure == InitPure /\ [][NextPure]_vars

----------------------------------------------------------------------------
(* Several invocations in flight: the handler is async, so a second        *)
(* request may be dispatched while the first is suspended at its await.    *)

MaxInFlight == 2

\* What the clients send: name and arguments.
ConcInvocations ==
    {[name |-> "get_sentry_issue", args |-> [NoArgs EXCEPT !.issue_id_or_url = Str(<<"1", "2">>)]],
     [name |-> "get_sentry_issue", args |-> [NoArgs EXCEPT !.issue_id_or_url = Str(<<"x">>)]],
     [name |-> "list_project_issues", args |-> [NoArgs EXCEPT !.project_slug = Str(<<"p">>)]],
     [name |-> "list_project_issues",
      args |-> [NoArgs EXCEPT !.project_slug = Str(<<"p">>),
                              !.organization_slug = Str(<<"o", "2">>),
                              !.cursor = Str(<<"q">>)]],
     [name |-> "unknown_tool", args |-> NoArgs]}

ConcFulfilments ==
    {Fulfilled(JArr(<<>>), Undefined),
     Fulfilled(JArr(<<>>), Str(W_linkPrevious \o <<",", " ">> \o W_linkNext))}

ConcRejections == {OtherError("socket hang up")}

InitConc ==
    /\ env \in {e \in Environments : ~StartupExits(e) /\ e.SENTRY_BASE_URL = Undefined}
    /\ proc = "starting"
    /\ exitCode = -1
    /\ config = NoConfig
    /\ calls = [i \in 1..MaxInFlight |-> Idle]
    /\ sample = NoSample
    /\ startupError = ""

InvokeConc ==
    /\ proc = "running"
    /\ \E i \in DOMAIN calls :
          /\ calls[i].pc = "idle"
          /\ \E inv \in ConcInvocations : Invoke(i, inv.name, inv.args)

FulfilConc ==
    /\ proc = "running"
    /\ \E i \in DOMAIN calls :
          /\ calls[i].pc = "await"
          /\ \E r \in ConcFulfilments : Settle(i, r)

RejectConc ==
    /\ proc = "running"
    /\ \E i \in DOMAIN calls :
          /\ calls[i].pc = "await"
          /\ \E r \in ConcRejections : Settle(i, r)

NextConc == StartupRun \/ InvokeConc \/ FulfilConc \/ RejectConc \/ FinishAny

SpecConc == InitConc /\ [][NextConc]_vars

\* The GET that invocation i awaits settles.
SettleSlot(i) ==
    /\ proc = "running"
    /\ calls[i].pc = "await"
    /\ \E r \in ConcFulfilments \cup ConcRejections : Settle(i, r)

\* Every awaited GET settles in the end: axios resolves or rejects its
\* promise (at the latest by a network error) and the handler is resumed.
SpecLive == SpecConc /\ \A i \in 1..MaxInFlight : WF_vars(SettleSlot(i))

----------------------------------------------------------------------------
(* Vocabulary of the properties *)

\* The invocations that have started (and not yet been forgotten).
Started == {i \in DOMAIN calls : calls[i].pc # "idle"}

Faults(c) == {c.outs[k].fault : k \in {k \in 1..Len(c.outs) : c.outs[k].kind = "fault"}}

Results(c) == {c.outs[k].result : k \in {k \in 1..Len(c.outs) : c.outs[k].kind = "result"}}

FaultCodes(c) == {f.code : f \in Faults(c)}

\* A non-empty run of decimal digits.
IsDigitRun(s) == s # <<>> /\ \A i \in 1..Len(s) : s[i] \in Digit

IsNonEmptyString(x) == x.t = "string" /\ x.v # <<>>

\* 32 characters, each in 0-9, a-f or A-F.
IsHex32(x) ==
    /\ x.t = "string"
    /\ Len(x.v) = 32
    /\ \A i \in 1..Len(x.v) :
          x.v[i] \in {"0", "1", "2", "3", "4", "5", "6", "7", "8", "9",
                      "a", "b", "c", "d", "e", "f", "A", "B", "C", "D", "E", "F"}

\* The text embeds the characters s.
Embeds(text, s) == \E k \in 1..Len(text) : text[k] = Chars(s)

\* Some segment `issues` of the path is immediately followed by a digit run.
HasIssuesThenDigits(segs) ==
    \E k \in 1..(Len(segs) - 1) : segs[k] = W_issues /\ IsDigitRun(segs[k + 1])

IsHttpUrl(s) == (StartsWith(s, W_http) \/ StartsWith(s, W_https)) /\ ParseURL(s).ok

PathSegmentsOf(s) == SplitOn(ParseURL(s).pathname, {"/"})

\* A digit-only string, or a URL with an issues/<digits> path.
IsIssueIdOrUrl(x) ==
    /\ x.t = "string"
    /\ \/ IsDigitRun(x.v)
       \/ IsHttpUrl(x.v) /\ HasIssuesThenDigits(PathSegmentsOf(x.v))

----------------------------------------------------------------------------
(* C1: an invocation that ends in a protocol fault (invalid-params,        *)
(* method-not-found) has issued no upstream request, and a GET is started  *)
(* only once every argument of its tool has passed validation: the         *)
(* project_slug and event_id checks, and an issue id that is a digit run.  *)

C1_ValidatedBeforeGet ==
    \A i \in Started :
        LET c == calls[i]
        IN  /\ (FaultCodes(c) \cap {"InvalidParams", "MethodNotFound"} # {} => c.reqs = <<>>)
            /\ c.reqs # <<>> =>
                  /\ c.name = "list_project_issues" => IsNonEmptyString(c.args.project_slug)
                  /\ c.name = "get_event_details" =>
                        IsNonEmptyString(c.args.project_slug) /\ IsHex32(c.args.event_id)
                  /\ c.name = "get_sentry_issue" =>
                        /\ c.args.issue_id_or_url.t = "string"
                        /\ \E id \in {SubSeq(c.reqs[1].url, 8, Len(c.reqs[1].url) - 1)} :
                              IsDigitRun(id) /\ c.reqs[1].url = W_issuesSlash \o id \o <<"/">>

\* get_event_details with a valid project_slug fails its last check, the
\* event_id format, and ends in a fault with no request issued.
C1_Witness ==
    \E i \in Started :
        /\ calls[i].pc = "done"
        /\ calls[i].name = "get_event_details"
        /\ IsNonEmptyString(calls[i].args.project_slug)
        /\ calls[i].args.event_id = Str(Rep("a", 31))
        /\ FaultCodes(calls[i]) = {"InvalidParams"}
        /\ calls[i].reqs = <<>>

----------------------------------------------------------------------------
(* C2: every invocation issues at most one upstream request, whatever its  *)
(* outcome; a failed upstream call is not retried.                         *)

C2_AtMostOneRequest == \A i \in Started : Len(calls[i].reqs) <= 1

\* An invocation whose only GET was rejected has ended, with that one GET.
C2_Witness ==
    \E i \in Started :
        /\ calls[i].pc = "done"
        /\ Len(calls[i].reqs) = 1
        /\ Len(calls[i].settled) = 1
        /\ calls[i].settled[1].kind = "axios_error"

----------------------------------------------------------------------------
(* C3: the shape of a returned result *)

W_pagination == <<"p", "a", "g", "i", "n", "a", "t", "i", "o", "n">>

\* The settlement the result of a finished invocation was made from.
LastSettled(c) == c.settled[Len(c.settled)]

\* What a success result serializes: the payload, and for
\* list_project_issues the payload under `issues` beside `pagination`.
Carried(c) ==
    IF c.name = "list_project_issues"
    THEN JObj(<<Field(W_issues, LastSettled(c).data),
                Field(W_pagination, LinksJson(parseLinkHeader(LastSettled(c).link)))>>)
    ELSE LastSettled(c).data

OneTextItem(r) == Len(r.content) = 1 /\ r.content[1].type = "text"

IsFailureResult(c, r) ==
    /\ LastSettled(c).kind # "fulfilled"
    /\ r.isError = Present(TRUE)
    /\ r.content[1].text # <<>>

\* C3 as stated: every returned result has exactly one text item and is
\* either a success result whose text is the JSON serialization of the
\* upstream payload, without error flag, or a failure result whose text is
\* an error string with isError = true.
C3_Original ==
    \A i \in Started : \A r \in Results(calls[i]) :
        /\ OneTextItem(r)
        /\ \/ /\ LastSettled(calls[i]).kind = "fulfilled"
              /\ r.isError = Absent
              /\ r.content[1].text = JsonStringify(LastSettled(calls[i]).data)
           \/ IsFailureResult(calls[i], r)

\* C3 (amended): every returned result has exactly one text item and is
\* either a success result without error flag whose text is the JSON
\* serialization of the upstream payload (for list_project_issues: of the
\* object {issues: payload, pagination: cursors}), or a failure result whose
\* text is an error string with isError = true; never both, never neither.
C3_ResultShape ==
    \A i \in Started : \A r \in Results(calls[i]) :
        /\ OneTextItem(r)
        /\ \/ /\ LastSettled(calls[i]).kind = "fulfilled"
              /\ r.isError = Absent
              /\ r.content[1].text = JsonStringify(Carried(calls[i]))
           \/ IsFailureResult(calls[i], r)

\* list_project_issues has returned a success result that carries the
\* payload under `issues` beside the cursors of the Link header.
C3_Witness ==
    \E i \in Started :
        /\ calls[i].name = "list_project_issues"
        /\ calls[i].pc = "done"
        /\ calls[i].settled # <<>>
        /\ LastSettled(calls[i]).kind = "fulfilled"
        /\ LastSettled(calls[i]).link = Str(W_linkNext)
        /\ \E r \in Results(calls[i]) :
              r.isError = Absent /\ r.content[1].text # JsonStringify(LastSettled(calls[i]).data)

----------------------------------------------------------------------------
(* C4: a failure of the upstream call (a non-2xx response, a connection    *)
(* failure, a timeout, any rejection of the GET) ends the invocation with  *)
(* a returned result whose isError is true, for each of the four tools; it *)
(* is never thrown out of the handler as a fault.                          *)

C4_FailureIsReturned ==
    \A i \in Started :
        LET c == calls[i]
        IN  (c.settled # <<>> /\ LastSettled(c).kind # "fulfilled") =>
                /\ c.pc = "done"
                /\ Faults(c) = {}
                /\ Len(c.outs) = 1
                /\ \A r \in Results(c) : r.isError = Present(TRUE)

\* get_event_details ends with an error result after a refused connection.
C4_Witness ==
    \E i \in Started :
        /\ calls[i].name = "get_event_details"
        /\ calls[i].settled = <<AxiosErrorNoResponse("connect ECONNREFUSED")>>
        /\ Len(calls[i].outs) = 1
        /\ calls[i].outs[1].kind = "result"

----------------------------------------------------------------------------
(* C5: the error string of a failed upstream call embeds the HTTP status,  *)
(* the status text and the serialized body when an HTTP response is        *)
(* available, and is the raw error message otherwise (a transport failure  *)
(* such as a refused connection or a timeout).                             *)

C5_ErrorString ==
    \A i \in Started :
        LET c == calls[i]
        IN  (c.pc = "done" /\ c.settled # <<>>
             /\ LastSettled(c).kind \in {"axios_error", "error"}) =>
                \A r \in Results(c) :
                    LET text == r.content[1].text
                        e == LastSettled(c)
                    IN  IF e.hasResponse
                        THEN /\ \E k \in 1..Len(text) : text[k] = NumPart(e.status)
                             /\ \E k \in 1..Len(text) : text[k] = Txt(e.statusText)
                             /\ \E k \in 1..Len(text) :
                                   SubSeq(text, k, Len(text)) = JsonStringify(e.data)
                        ELSE text = <<Txt(e.message)>>

----------------------------------------------------------------------------
(* C6: an invocation whose tool name is not one of the four supported      *)
(* names fails with a method-not-found fault, whatever its arguments, and  *)
(* issues no request; an invocation with one of the four names never fails *)
(* with method-not-found.                                                  *)

C6_MethodNotFound ==
    \A i \in Started :
        LET c == calls[i]
        IN  IF c.name \in {"get_sentry_issue", "list_organization_projects",
                           "list_project_issues", "get_event_details"}
            THEN "MethodNotFound" \notin FaultCodes(c)
            ELSE /\ c.pc = "done"
                 /\ Len(c.outs) = 1
                 /\ FaultCodes(c) = {"MethodNotFound"}
                 /\ c.reqs = <<>>

\* An unknown name sent with arguments that get_sentry_issue and
\* get_event_details would accept.
C6_Witness ==
    \E i \in Started :
        /\ calls[i].name = "unknown_tool"
        /\ calls[i].args.issue_id_or_url = Str(<<"1", "2">>)
        /\ calls[i].args.event_id = Str(Rep("a", 32))
        /\ FaultCodes(calls[i]) = {"MethodNotFound"}

----------------------------------------------------------------------------
(* C7: for every input made only of decimal digits (at least one),         *)
(* parseSentryIssueInput returns that exact string as the issue id,        *)
(* leading zeros included.                                                 *)

C7_DigitsReturnedUnchanged ==
    (sample.fn = "parseSentryIssueInput" /\ sample.applied /\ IsDigitRun(sample.input)) =>
        sample.issue = [found |-> TRUE, issueId |-> sample.input]

\* The parser has been applied to a digit string with a leading zero.
C7_Witness ==
    /\ sample.fn = "parseSentryIssueInput"
    /\ sample.applied
    /\ sample.input = <<"0", "1", "9">>
    /\ sample.issue.found

----------------------------------------------------------------------------
(* C8: for every http/https URL whose path has a segment `issues`          *)
(* immediately followed by a digit-only segment, parseSentryIssueInput     *)
(* returns those digits as the issue id; for every URL whose path has no   *)
(* `issues` segment followed by a digit-only segment it returns no match.  *)

C8_UrlIssueId ==
    (sample.fn = "parseSentryIssueInput" /\ sample.applied /\ IsHttpUrl(sample.input)) =>
        LET segs == PathSegmentsOf(sample.input)
        IN  IF HasIssuesThenDigits(segs)
            THEN /\ sample.issue.found
                 /\ \E k \in 1..(Len(segs) - 1) :
                       segs[k] = W_issues /\ IsDigitRun(segs[k + 1])
                       /\ sample.issue.issueId = segs[k + 1]
            ELSE ~sample.issue.found

----------------------------------------------------------------------------
(* C9: get_sentry_issue with an issue_id_or_url that is missing, not a     *)
(* string, or a string that is neither digit-only nor a URL with an        *)
(* issues/<digits> path fails with an invalid-params fault and issues no   *)
(* request; for a string the message names the input; a URL that cannot be *)
(* parsed gets the same invalid-params fault.                              *)

C9_InvalidIssueInput ==
    \A i \in Started :
        LET c == calls[i]
            x == c.args.issue_id_or_url
        IN  (c.name = "get_sentry_issue" /\ ~IsIssueIdOrUrl(x)) =>
                /\ c.pc = "done"
                /\ c.reqs = <<>>
                /\ Len(c.outs) = 1
                /\ FaultCodes(c) = {"InvalidParams"}
                /\ x.t = "string" => \A f \in Faults(c) : Embeds(f.message, x.v)

\* The input http:// starts like a URL and cannot be parsed as one.
C9_Witness ==
    \E i \in Started :
        /\ calls[i].name = "get_sentry_issue"
        /\ calls[i].args.issue_id_or_url = Str(W_http)
        /\ ~ParseURL(W_http).ok
        /\ FaultCodes(calls[i]) = {"InvalidParams"}
        /\ \A f \in Faults(calls[i]) : Embeds(f.message, W_http)

----------------------------------------------------------------------------
(* C10: the event_id contract of get_event_details *)

W_eventIdFormatHint ==
    "'. Please provide a valid 32-character hexadecimal Sentry Event ID. You can get this by clicking 'Copy Event ID' in Sentry."

\* The fault names the invalid value and the expected format.
NamesValueAndFormat(f, x) ==
    /\ x.t = "string"
    /\ Embeds(f.message, x.v)
    /\ \E k \in 1..Len(f.message) : f.message[k] = Lit(W_eventIdFormatHint)

\* get_event_details with a valid project_slug
EventCalls == {i \in Started : /\ calls[i].name = "get_event_details"
                               /\ IsNonEmptyString(calls[i].args.project_slug)}

Accepted(c) == Len(c.reqs) = 1 /\ Faults(c) = {}

RejectedInvalidParams(c) ==
    c.pc = "done" /\ c.reqs = <<>> /\ Len(c.outs) = 1 /\ FaultCodes(c) = {"InvalidParams"}

\* C10 as stated: get_event_details (with a valid project_slug) accepts an
\* event_id if and only if it is a string of exactly 32 hexadecimal
\* characters; any other event_id, a missing or non-string one included, is
\* rejected with an invalid-params fault that names the invalid value and
\* the expected format.
C10_Original ==
    \A i \in EventCalls :
        LET c == calls[i]
            x == c.args.event_id
        IN  IF IsHex32(x)
            THEN Accepted(c)
            ELSE RejectedInvalidParams(c) /\ \A f \in Faults(c) : NamesValueAndFormat(f, x)

\* C10 (amended): get_event_details (with a valid project_slug) accepts an
\* event_id if and only if it is a string of exactly 32 hexadecimal
\* characters; a string of any other length or with any other character is
\* rejected with an invalid-params fault that names the invalid value and
\* the expected format; a missing or non-string event_id is rejected with
\* an invalid-params fault that says event_id must be a string (it names
\* neither a value nor the 32-character format).
C10_EventIdFormat ==
    \A i \in EventCalls :
        LET c == calls[i]
            x == c.args.event_id
        IN  IF IsHex32(x)
            THEN Accepted(c)
            ELSE /\ RejectedInvalidParams(c)
                 /\ \A f \in Faults(c) :
                       IF x.t = "string"
                       THEN NamesValueAndFormat(f, x)
                       ELSE f.message =
                              <<Lit("Missing or invalid argument: event_id must be a string.")>>

\* A 33-character hexadecimal event_id has been rejected with a fault that
\* names it and the expected format.
C10_Witness ==
    \E i \in EventCalls :
        /\ calls[i].args.event_id = Str(Rep("A", 33))
        /\ RejectedInvalidParams(calls[i])
        /\ \A f \in Faults(calls[i]) : NamesValueAndFormat(f, calls[i].args.event_id)

----------------------------------------------------------------------------
(* C11: list_project_issues and get_event_details reject a project_slug    *)
(* that is missing, not a string, or the empty string with an              *)
(* invalid-params fault, whatever the other arguments are; a non-empty     *)
(* string project_slug is never rejected by this check.                    *)

W_projectSlugMessage ==
    "Missing or invalid argument: project_slug must be a non-empty string."

\* list_project_issues and get_event_details
ProjectCalls == {i \in Started : calls[i].name \in {"list_project_issues", "get_event_details"}}

C11_ProjectSlugRequired ==
    \A i \in ProjectCalls :
        LET c == calls[i]
        IN  IF IsNonEmptyString(c.args.project_slug)
            THEN \A f \in Faults(c) : f.message # <<Lit(W_projectSlugMessage)>>
            ELSE /\ RejectedInvalidParams(c)
                 /\ \A f \in Faults(c) : f.message = <<Lit(W_projectSlugMessage)>>

\* list_project_issues with an empty project_slug is rejected although its
\* organization_slug, query, statsPeriod and cursor are all well-formed.
C11_Witness ==
    \E i \in ProjectCalls :
        /\ calls[i].name = "list_project_issues"
        /\ calls[i].args.project_slug = Str(<<>>)
        /\ calls[i].args.organization_slug = Str(<<"o", "2">>)
        /\ calls[i].args.query = Str(<<"q">>)
        /\ calls[i].args.statsPeriod = Str(<<"q">>)
        /\ calls[i].args.cursor = Str(<<"q">>)
        /\ RejectedInvalidParams(calls[i])

----------------------------------------------------------------------------
(* C12: for list_project_issues and get_event_details, the organization    *)
(* placed in the upstream path is the supplied organization_slug when one  *)
(* is supplied and non-empty, and the configured default organization      *)
(* (SENTRY_ORG_SLUG) otherwise; a missing or empty organization_slug is    *)
(* not forwarded, so the organization segment of the path is never empty.  *)

\* The segments of the path of a request: projects, org, project, ...
UrlSegments(req) == SplitOn(req.url, {"/"})

C12_OrganizationInPath ==
    \A i \in ProjectCalls :
        LET c == calls[i]
            o == c.args.organization_slug
        IN  c.reqs # <<>> =>
                /\ UrlSegments(c.reqs[1])[2] =
                       (IF IsNonEmptyString(o) THEN o.v ELSE config.defaultOrgSlug)
                /\ UrlSegments(c.reqs[1])[2] # <<>>

----------------------------------------------------------------------------
(* C13: for list_project_issues, each of the query parameters query,       *)
(* statsPeriod and cursor is present in the upstream request if and only   *)
(* if the corresponding argument was supplied as a non-empty string, and   *)
(* then carries exactly the supplied value; no other query parameter is    *)
(* ever sent.                                                              *)

\* The values the request sends for the query parameter `key`.
ParamValues(req, key) ==
    {req.params[k].val : k \in {k \in 1..Len(req.params) : req.params[k].key = key}}

ParamKeys(req) == {req.params[k].key : k \in 1..Len(req.params)}

C13_QueryParameters ==
    \A i \in Started :
        LET c == calls[i]
        IN  (c.name = "list_project_issues" /\ c.reqs # <<>>) =>
                /\ ParamKeys(c.reqs[1]) \subseteq {"query", "statsPeriod", "cursor"}
                /\ Len(c.reqs[1].params) = Cardinality(ParamKeys(c.reqs[1]))
                /\ ParamValues(c.reqs[1], "query") =
                       (IF IsNonEmptyString(c.args.query) THEN {c.args.query.v} ELSE {})
                /\ ParamValues(c.reqs[1], "statsPeriod") =
                       (IF IsNonEmptyString(c.args.statsPeriod)
                        THEN {c.args.statsPeriod.v} ELSE {})
                /\ ParamValues(c.reqs[1], "cursor") =
                       (IF IsNonEmptyString(c.args.cursor) THEN {c.args.cursor.v} ELSE {})

\* A request that carries statsPeriod only: query was sent empty and cursor
\* was not a string.
C13_Witness ==
    \E i \in Started :
        /\ calls[i].name = "list_project_issues"
        /\ calls[i].args.query = Str(<<>>)
        /\ calls[i].args.statsPeriod = Str(<<"1", "4", "d">>)
        /\ calls[i].args.cursor = NumberVal
        /\ Len(calls[i].reqs) = 1
        /\ calls[i].reqs[1].params = <<[key |-> "statsPeriod", val |-> <<"1", "4", "d">>]>>

----------------------------------------------------------------------------
(* C14: every invocation that passes validation issues exactly one         *)
(* upstream GET, to the endpoint of its operation: get_sentry_issue to     *)
(* issues/{id}/ with the parsed id (https://org.sentry.io/issues/          *)
(* 6380454530/ gives issues/6380454530/), list_organization_projects to    *)
(* projects/, list_project_issues to projects/{org}/{project}/issues/,     *)
(* get_event_details to projects/{org}/{project}/events/{event_id}/; on a  *)
(* 2xx response it returns a success result carrying the response body.    *)

\* The invocation has not been rejected by a check on its name or arguments.
PassesValidation(c) == Faults(c) = {}

\* The ids an issue_id_or_url may stand for: the input itself, or a segment
\* of its path that follows a segment `issues`.
IssueIdsOf(x) ==
    IF IsDigitRun(x.v) THEN {x.v}
    ELSE IF IsHttpUrl(x.v)
    THEN LET segs == PathSegmentsOf(x.v)
         IN  {segs[k + 1] : k \in {k \in 1..(Len(segs) - 1) :
                                      segs[k] = W_issues /\ IsDigitRun(segs[k + 1])}}
    ELSE {}

\* The organizations the path may name: the supplied one or the default.
OrgsOf(c) ==
    {config.defaultOrgSlug}
    \cup (IF c.args.organization_slug.t = "string" THEN {c.args.organization_slug.v} ELSE {})

\* The paths the invocation's operation may be sent to.
Endpoints(c) ==
    CASE c.name = "get_sentry_issue" ->
           {W_issuesSlash \o id \o <<"/">> : id \in IssueIdsOf(c.args.issue_id_or_url)}
      [] c.name = "list_organization_projects" -> {W_projectsSlash}
      [] c.name = "list_project_issues" ->
           {W_projectsSlash \o org \o <<"/">> \o c.args.project_slug.v \o W_slashIssuesSlash :
                org \in OrgsOf(c)}
      [] c.name = "get_event_details" ->
           {W_projectsSlash \o org \o <<"/">> \o c.args.project_slug.v \o W_slashEventsSlash
                \o c.args.event_id.v \o <<"/">> : org \in OrgsOf(c)}
      [] OTHER -> {}

C14_OneGetToEndpoint ==
    \A i \in Started :
        LET c == calls[i]
        IN  PassesValidation(c) =>
                /\ Len(c.reqs) = 1
                /\ c.reqs[1].method = "GET"
                /\ c.reqs[1].url \in Endpoints(c)
                /\ (c.args.issue_id_or_url = Str(W_sentryExample) /\ c.name = "get_sentry_issue")
                       => c.reqs[1].url = W_issuesSlash \o W_exampleId \o <<"/">>
                /\ (c.settled # <<>> /\ LastSettled(c).kind = "fulfilled") =>
                       /\ c.pc = "done"
                       /\ Len(c.outs) = 1
                       /\ \A r \in Results(c) :
                              /\ r.isError = Absent
                              /\ OneTextItem(r)
                              /\ r.content[1].text = JsonStringify(Carried(c))

\* get_sentry_issue with the example URL has sent its one GET to
\* issues/6380454530/ and returned the body of the 2xx response.
C14_Witness ==
    \E i \in Started :
        /\ calls[i].name = "get_sentry_issue"
        /\ calls[i].args.issue_id_or_url = Str(W_sentryExample)
        /\ calls[i].pc = "done"
        /\ Len(calls[i].reqs) = 1
        /\ calls[i].reqs[1].url = W_issuesSlash \o W_exampleId \o <<"/">>
        /\ calls[i].settled # <<>>
        /\ LastSettled(calls[i]).kind = "fulfilled"
        /\ LastSettled(calls[i]).data # JArr(<<>>)
        /\ \E r \in Results(calls[i]) :
              r.content[1].text = JsonStringify(LastSettled(calls[i]).data)

----------------------------------------------------------------------------
(* Vocabulary of the Link header properties *)

\* parseLinkHeader has been applied to the sampled header.
LinkParsed == sample.fn = "parseLinkHeader" /\ sample.applied

\* The comma-separated segments of a header.
HeaderSegments(h) == IF h.t = "undefined" THEN <<>> ELSE SplitOn(h.v, {","})

Unquoted(s) == SelectSeq(s, LAMBDA ch : ch # "\"")

\* The parameters of a segment, name=value, quotes stripped.
SegmentParams(seg) ==
    LET section == SplitOn(seg, {";"})
    IN  {Unquoted(Trim(section[k])) : k \in 2..Len(section)}

HasParam(seg, name, value) == (name \o <<"=">> \o value) \in SegmentParams(seg)

HasResultsTrue(seg) == HasParam(seg, <<"r", "e", "s", "u", "l", "t", "s">>, <<"t", "r", "u", "e">>)

\* Fewer than two semicolon-separated parts, or no <...> in the first part.
IsMalformedSegment(seg) ==
    LET section == SplitOn(seg, {";"})
    IN  \/ Len(section) < 2
        \/ ~\E i \in 1..Len(section[1]) : \E j \in (i + 1)..Len(section[1]) :
                section[1][i] = "<" /\ section[1][j] = ">"

----------------------------------------------------------------------------
(* C15: parseLinkHeader puts an entry rel -> cursor in its result only for *)
(* a header segment that has a rel parameter, a cursor parameter and a     *)
(* results parameter whose value is the literal string "true"; a segment   *)
(* lacking results="true" (absent, or any other value such as "false")     *)
(* contributes no entry.                                                   *)

C15_EntryOnlyWithResultsTrue ==
    LinkParsed =>
        LET segs == HeaderSegments(sample.header)
        IN  /\ \A k \in 1..Len(sample.links) :
                  \E n \in 1..Len(segs) :
                      /\ HasParam(segs[n], <<"r", "e", "l">>, sample.links[k].key)
                      /\ HasParam(segs[n], <<"c", "u", "r", "s", "o", "r">>, sample.links[k].val)
                      /\ HasResultsTrue(segs[n])
            /\ (\A n \in 1..Len(segs) : ~HasResultsTrue(segs[n])) => sample.links = <<>>

\* A header of two segments, the first with results="false": only the
\* second has given an entry.
C15_Witness ==
    /\ LinkParsed
    /\ sample.header = Str(W_linkPrevNoResults \o <<",", " ">> \o W_linkNext)
    /\ sample.links = <<[key |-> W_next, val |-> W_exampleCursor]>>

----------------------------------------------------------------------------
(* C16: for every Link header segment in the conventional format           *)
(* <url>; rel="R"; results="true"; cursor="C" (any URL in angle brackets,  *)
(* any non-empty relation R and any non-empty opaque cursor token C),      *)
(* parseLinkHeader's result maps R to exactly C with the surrounding       *)
(* quotes stripped; e.g. <https://x/?cursor=abc>; rel="next";              *)
(* results="true"; cursor="abc:0:0" yields {next: "abc:0:0"}.              *)

C16_ConventionalSegment ==
    LinkParsed =>
        \A u \in ConvUrls : \A r \in ConvRels : \A c \in ConvCursors :
            sample.header = Str(Conventional(u, r, c)) =>
                sample.links = <<[key |-> r, val |-> c]>>

----------------------------------------------------------------------------
(* C17: parseLinkHeader never fails: a missing or empty header yields an   *)
(* empty mapping, and in any header a malformed segment (fewer than two    *)
(* semicolon-separated parts, or no angle-bracket URL in its first part)   *)
(* is skipped without raising an error and without changing the entries    *)
(* contributed by the other, well-formed segments.                         *)

\* The header without its malformed segments.
WellFormedOnly(h) ==
    Str(JoinWith(SelectSeq(HeaderSegments(h), LAMBDA seg : ~IsMalformedSegment(seg)), <<",">>))

\* The result is a mapping: no key twice.
IsMapping(links) ==
    \A k \in 1..Len(links) : \A n \in 1..Len(links) : links[k].key = links[n].key => k = n

C17_MalformedSkipped ==
    LinkParsed =>
        /\ IsMapping(sample.links)
        /\ (sample.header.t = "undefined" \/ sample.header.v = <<>>) => sample.links = <<>>
        /\ sample.links = parseLinkHeader(WellFormedOnly(sample.header))

\* A header whose first segment has no parameters and whose second is well
\* formed: the entry of the second is there.
C17_Witness ==
    /\ LinkParsed
    /\ sample.header = Str(<<"<", "u", ">", ",", " ">> \o W_linkNext)
    /\ IsMalformedSegment(HeaderSegments(sample.header)[1])
    /\ sample.links = <<[key |-> W_next, val |-> W_exampleCursor]>>

----------------------------------------------------------------------------
(* JSON.parse, as a client applies it to the text of a result: the tokens  *)
(* of the text are read back into a value, white space skipped, string     *)
(* escapes undone, the last of two equal keys kept.                        *)

RECURSIVE Unescape(_)
Unescape(s) ==
    IF s = <<>> THEN <<>>
    ELSE IF Head(s) = "\\" /\ Len(s) >= 2 THEN <<s[2]>> \o Unescape(SubSeq(s, 3, Len(s)))
    ELSE <<Head(s)>> \o Unescape(Tail(s))

\* The characters between the quotes of a string token.
Unquote(tok) == Unescape(SubSeq(tok.val, 2, Len(tok.val) - 1))

RECURSIVE ParseValue(_, _)
RECURSIVE ParseItems(_, _, _)
RECURSIVE ParseFields(_, _, _)
\* The value that starts at token p, and the position after it.
ParseValue(toks, p) ==
    CASE toks[p].k = "num" -> [v |-> JNum(toks[p].n), p |-> p + 1]
      [] toks[p].k = "chars" -> [v |-> JStr(Unquote(toks[p])), p |-> p + 1]
      [] toks[p] = Lit("null") -> [v |-> JNull, p |-> p + 1]
      [] toks[p] = Lit("[]") -> [v |-> JArr(<<>>), p |-> p + 1]
      [] toks[p] = Lit("{}") -> [v |-> JObj(<<>>), p |-> p + 1]
      [] toks[p] = Lit("[") -> ParseItems(toks, p + 1, <<>>)
      [] toks[p] = Lit("{") -> ParseFields(toks, p + 1, <<>>)

ParseItems(toks, p, items) ==
    IF toks[p] = Lit("]") THEN [v |-> JArr(items), p |-> p + 1]
    ELSE IF toks[p] = Lit(",") THEN ParseItems(toks, p + 1, items)
    ELSE ParseItems(toks, ParseValue(toks, p).p, Append(items, ParseValue(toks, p).v))

ParseFields(toks, p, fields) ==
    IF toks[p] = Lit("}") THEN [v |-> JObj(fields), p |-> p + 1]
    ELSE IF toks[p] = Lit(",") THEN ParseFields(toks, p + 1, fields)
    ELSE ParseFields(toks, ParseValue(toks, p + 2).p,
                     SetKey(fields, Unquote(toks[p]), ParseValue(toks, p + 2).v))

JsonParse(text) == ParseValue(SelectSeq(text, LAMBDA tok : tok.k # "indent"), 1).v

\* The invocations that have returned the result of a 2xx response.
Succeeded ==
    {i \in Started : /\ calls[i].pc = "done"
                     /\ calls[i].settled # <<>>
                     /\ LastSettled(calls[i]).kind = "fulfilled"}

\* What a client reads in the results of an invocation.
ParsedResults(c) == {JsonParse(r.content[1].text) : r \in Results(c)}

FieldKeys(obj) == {obj.fields[k].key : k \in 1..Len(obj.fields)}

FieldValue(obj, key) == obj.fields[CHOOSE k \in 1..Len(obj.fields) : obj.fields[k].key = key].val

----------------------------------------------------------------------------
(* C18: the pagination mapping returned by list_project_issues has only    *)
(* the relation names "next" and "prev" as keys, for every Link header the *)
(* upstream may send.                                                      *)

C18_PaginationKeys ==
    \A i \in Succeeded :
        calls[i].name = "list_project_issues" =>
            \A parsed \in ParsedResults(calls[i]) :
                FieldKeys(FieldValue(parsed, W_pagination)) \subseteq {W_next, W_prev}

----------------------------------------------------------------------------
(* C19: round trip: on a successful upstream response, parsing the text of *)
(* the returned content item as JSON gives back the upstream payload       *)
(* unchanged (no field added, removed or altered) for get_sentry_issue,    *)
(* list_organization_projects and get_event_details; for                   *)
(* list_project_issues the payload is unchanged under the `issues` field   *)
(* and the only addition is the `pagination` field parsed from that same   *)
(* response's Link header.                                                 *)

C19_RoundTrip ==
    \A i \in Succeeded :
        LET c == calls[i]
        IN  /\ Cardinality(Results(c)) = 1
            /\ \A parsed \in ParsedResults(c) :
                  IF c.name = "list_project_issues"
                  THEN /\ parsed.j = "obj"
                       /\ Len(parsed.fields) = 2
                       /\ FieldKeys(parsed) = {W_issues, W_pagination}
                       /\ FieldValue(parsed, W_issues) = LastSettled(c).data
                       /\ FieldValue(parsed, W_pagination) =
                              LinksJson(parseLinkHeader(LastSettled(c).link))
                  ELSE parsed = LastSettled(c).data

\* get_event_details has returned a payload whose string holds a quote and
\* a backslash; list_project_issues would have wrapped it.
C19_Witness ==
    \E i \in Succeeded :
        /\ calls[i].name = "get_event_details"
        /\ LastSettled(calls[i]).data =
               JObj(<<Field(<<"t">>, JStr(<<"a", "\\", "\"">>)),
                      Field(<<"t", "a", "g", "s">>, JArr(<<>>))>>)
        /\ ParsedResults(calls[i]) = {LastSettled(calls[i]).data}

----------------------------------------------------------------------------
(* C20: if any of the required configuration variables (auth token,        *)
(* organization slug, project names) is absent at startup, the process     *)
(* exits with a non-zero status after a diagnostic message, and it does so *)
(* before the server is constructed: no tool invocation is ever served and *)
(* no upstream request is ever issued by a process started with incomplete *)
(* configuration.                                                          *)

IsAbsent(x) == x.t = "undefined"

IncompleteConfiguration ==
    \/ IsAbsent(env.SENTRY_AUTH_TOKEN)
    \/ IsAbsent(env.SENTRY_ORG_SLUG)
    \/ IsAbsent(env.SENTRY_PROJECT_NAMES)

----------------------------------------------------------------------------
(* C21: when several tool invocations are in flight at once (each          *)
(* suspended at its network await), every interleaving of their steps      *)
(* gives each invocation the same outcome it would have if run alone: an   *)
(* invocation's fault or result is determined only by its own name and     *)
(* arguments, the configuration, and the upstream response to its own      *)
(* request, never by another invocation's arguments, response or           *)
(* pagination cursors.                                                     *)

\* The invocation run alone up to its await or its end.
AloneEntered(name, args) ==
    AfterStep([Idle EXCEPT !.name = name, !.args = args],
              HandlerEntry(name, args, Constructed(env).defaultOrgSlug), Constructed(env))

\* The invocation run alone, its GET settled as `settled` says.
RunAlone(name, args, settled) ==
    IF settled = <<>> THEN AloneEntered(name, args)
    ELSE AfterStep([AloneEntered(name, args) EXCEPT !.settled = settled],
                   HandlerResume(AloneEntered(name, args).at, args, settled[1]),
                   Constructed(env))

----------------------------------------------------------------------------
(* C22: no tool invocation, successful or failed, changes the static       *)
(* configuration: after any sequence of invocations the credential, base   *)
(* URL, default organization slug and configured project list are exactly  *)
(* the values read at startup (in particular a supplied organization_slug  *)
(* overrides the default for that call only and does not alter the default *)
(* used by later calls).                                                   *)

\* The configuration as the environment of the process gives it.
ReadAtStartup ==
    [authorization |-> <<"B", "e", "a", "r", "e", "r", " ">> \o env.SENTRY_AUTH_TOKEN.v,
     baseURL |-> (IF env.SENTRY_BASE_URL.t = "string" /\ env.SENTRY_BASE_URL.v # <<>>
                  THEN env.SENTRY_BASE_URL.v
                  ELSE <<"h", "t", "t", "p", "s", ":", "/", "/", "s", "e", "n", "t", "r", "y",
                         ".", "i", "o">>)
                 \o <<"/", "a", "p", "i", "/", "0", "/">>,
     defaultOrgSlug |-> env.SENTRY_ORG_SLUG.v,
     projectSlugs |-> <<<<"p">>, <<"p", "2">>>>]

C22_ConfigurationUnchanged ==
    proc = "running" =>
        /\ config = ReadAtStartup
        /\ \A i \in Started : \A k \in 1..Len(calls[i].reqs) :
              /\ calls[i].reqs[k].authorization = ReadAtStartup.authorization
              /\ calls[i].reqs[k].baseURL = ReadAtStartup.baseURL
              /\ (i \in ProjectCalls /\ calls[i].args.organization_slug.t # "string") =>
                     UrlSegments(calls[i].reqs[k])[2] = ReadAtStartup.defaultOrgSlug

\* A call that supplied its own organization has ended, after a failure of
\* its request to that organization, and the default is still the one of
\* the environment.
C22_Witness ==
    /\ proc = "running"
    /\ config.defaultOrgSlug = <<"o", "1">>
    /\ \E i \in ProjectCalls :
          /\ calls[i].pc = "done"
          /\ calls[i].args.organization_slug = Str(<<"o", "2">>)
          /\ Len(calls[i].reqs) = 1
          /\ UrlSegments(calls[i].reqs[1])[2] = <<"o", "2">>
          /\ calls[i].settled # <<>>
          /\ LastSettled(calls[i]).kind # "fulfilled"

----------------------------------------------------------------------------
(* C23: the issue-fetch logic placed after the dispatch switch is reached  *)
(* only when the tool name is get_sentry_issue: every invocation of        *)
(* list_organization_projects, list_project_issues or get_event_details    *)
(* returns or throws inside its own switch branch on every path (success,  *)
(* upstream failure, validation failure), so such an invocation never      *)
(* validates issue_id_or_url and never issues a GET to issues/{id}/.       *)

\* The invocations of the three tools that have a switch branch of their own.
BranchCalls ==
    {i \in Started : calls[i].name \in {"list_organization_projects", "list_project_issues",
                                        "get_event_details"}}

\* The fault comes from a check of issue_id_or_url.
IsIssueInputFault(f) ==
    \/ f.message = <<Lit("Invalid arguments: issue_id_or_url must be a string.")>>
    \/ f.message[1] = Lit("Invalid Sentry issue ID or URL format: ")

C23_IssueLogicOnlyForIssueTool ==
    \A i \in BranchCalls :
        LET c == calls[i]
        IN  /\ \A f \in Faults(c) : ~IsIssueInputFault(f)
            /\ \A k \in 1..Len(c.reqs) :
                  ~StartsWith(c.reqs[k].url, <<"i", "s", "s", "u", "e", "s", "/">>)
            /\ Len(c.reqs) <= 1
            /\ (c.reqs = <<>> \/ c.settled # <<>>) => (c.pc = "done" /\ Len(c.outs) = 1)

\* list_organization_projects, sent with an issue_id_or_url that is no
\* string, has returned the projects: the check of issue_id_or_url, which
\* would have thrown, was not reached.
C23_Witness ==
    \E i \in BranchCalls :
        /\ calls[i].name = "list_organization_projects"
        /\ calls[i].args.issue_id_or_url = Undefined
        /\ calls[i].pc = "done"
        /\ calls[i].settled # <<>>
        /\ LastSettled(calls[i]).kind = "fulfilled"
        /\ Faults(calls[i]) = {}
        /\ Cardinality(Results(calls[i])) = 1

----------------------------------------------------------------------------
(* C24: every tool invocation eventually ends with exactly one outcome,    *)
(* either a protocol fault or a returned result, provided the upstream     *)
(* call it awaits (if any) eventually completes with a response or a       *)
(* failure; no invocation ends with no outcome (e.g. by falling out of the *)
(* handler without returning) and none produces two outcomes.              *)

\* The invocation in slot i has ended with one outcome, a fault or a result.
EndedWithOneOutcome(i) ==
    /\ calls[i].pc = "done"
    /\ Len(calls[i].outs) = 1
    /\ calls[i].outs[1].kind \in {"fault", "result"}

\* No slot holds two outcomes, and a slot whose invocation has ended holds one.
AtMostOneOutcome ==
    \A i \in 1..MaxInFlight :
        /\ Len(calls[i].outs) <= 1
        /\ calls[i].pc = "done" => EndedWithOneOutcome(i)

C24_EventuallyOneOutcome ==
    /\ []AtMostOneOutcome
    /\ \A i \in 1..MaxInFlight : (calls[i].pc = "await" ~> EndedWithOneOutcome(i))

\* One invocation has ended with the result of its failed GET while
\* another is still suspended at its await.
C24_Witness ==
    \E i \in Started : \E j \in Started :
        /\ calls[i].pc = "done"
        /\ calls[i].settled = <<OtherError("socket hang up")>>
        /\ Len(calls[i].outs) = 1
        /\ calls[i].outs[1].kind = "result"
        /\ calls[j].pc = "await"

=============================================================================
